---- MODULE Spec2Model ----
(***************************************************************************)
(* TransmissionManager (src/main.py): the completion tracker and the poll  *)
(* loop.  One state machine: the loop of run(), one step per torrent of    *)
(* the pass in flight, and the signal handler interleaving with the loop.  *)
(* Time is counted in minutes, the unit of --delay.                        *)
(***************************************************************************)
EXTENDS Integers, Sequences, FiniteSets, TLC

(* ---------------------------------------------------------------- bounds *)
NumTorrents == 2      \* torrent identifiers are 1..NumTorrents
MaxTime == 2          \* datetime.now() readings are 0..MaxTime
MaxDelay == 2         \* --delay is 0..MaxDelay
MaxRatio == 2         \* --ratio and torrent.ratio are 0..MaxRatio

Ids == 1..NumTorrents
Times == 0..MaxTime
Delays == 0..MaxDelay
Ratios == 0..MaxRatio

(* Optional[float]: None is the empty sequence, a number x is <<x>>        *)
None == <<>>
Some(x) == <<x>>

(* torrent.status: the values of transmission_rpc the passes tell apart   *)
Statuses == {"stopped", "downloading", "seeding", "seed_pending"}

VARIABLES
    delay,               \* self.delay
    ratio,               \* self.ratio: None or Some(number)
    completed_torrents,  \* self.completed_torrents: id -> first-observed time
    stop_event,          \* self.stop_event.is_set()
    pc,                  \* position of run()
    torrents,            \* the part of the list get_torrents() returned that the
                         \* for loop of the pass in flight has yet to visit
    listed,              \* the ids of the list get_torrents() returned last
    current_time,        \* the last datetime.now() of remove_torrents_by_delay
    stop_calls,          \* ids stop_torrent was called with in the pass in flight
    log,                 \* the line the last iteration of the pass in flight
                         \* wrote to the log, "none" when it wrote none
    error,               \* the backend call that raised: "none", "connect",
                         \* "list", "stop"
    streak_start,        \* observer of torrent Watched: None, or Some(time of its
                         \* first completed-class observation since the delay
                         \* pass last observed it in any other status)
    polls_after_stop,    \* observer: get_torrents calls begun with the flag set
    wait_result,         \* what the last stop_event.wait() returned: "set" (True),
                         \* "timeout" (False); "none" before the first wait and
                         \* once the loop goes on to a pass
    w_state,             \* observer of torrent Watched, see Classify
    stdout               \* the lines print() has written, as a set

vars == <<delay, ratio, completed_torrents, stop_event, pc, torrents, listed,
          current_time, stop_calls, log, error, streak_start, polls_after_stop,
          wait_result,
          w_state,
          stdout>>

(* ------------------------------------------------------------ dictionary *)
Has(d, k) == k \in DOMAIN d
Del(d, k) == [i \in DOMAIN d \ {k} |-> d[i]]
Put(d, k, v) == [i \in DOMAIN d \cup {k} |-> IF i = k THEN v ELSE d[i]]
EmptyDict == [i \in {} |-> 0]

(* ------------------------------------------------------------- snapshots *)
Torrent(i, s, r) == [id |-> i, status |-> s, ratio |-> r]

(* torrent.ratio is read by the ratio pass alone: the delay pass gets 0    *)
LiveRatios == IF ratio = None THEN {0} ELSE Ratios

RECURSIVE ListOf(_, _)
ListOf(f, i) ==
    IF i > NumTorrents THEN <<>>
    ELSE (IF i \in DOMAIN f THEN <<Torrent(i, f[i][1], f[i][2])>> ELSE <<>>)
         \o ListOf(f, i + 1)

(* the lists get_torrents() can return: any subset of the ids, each once,  *)
(* in the order of the ids                                                 *)
Snapshots ==
    { ListOf(f, 1) : f \in UNION { [S -> Statuses \X LiveRatios] : S \in SUBSET Ids } }

IdsOf(list) == { list[k].id : k \in 1..Len(list) }

(* ------------------------------------------------------- the two policies *)
(* line 82: torrent.status in ('seeding', 'seed_pending')                  *)
IsCompleted(status) == status \in {"seeding", "seed_pending"}

DelayElapsed_strict(first, now) == delay = 0 \/ now - first > delay

(* lines 87-88: self.delay == 0 or current_time - first >= timedelta(minutes=delay) *)
DelayElapsed(first, now) == delay = 0 \/ now - first >= delay

DelayIter_stopOnInsert(tracked, t, now) ==
    IF t.status = "stopped" THEN
        [stop |-> FALSE, tracked |-> Del(tracked, t.id),
         log |-> IF Has(tracked, t.id) THEN "paused" ELSE "none"]
    ELSE IF IsCompleted(t.status) THEN
        IF ~Has(tracked, t.id) THEN
            IF delay = 0 THEN [stop |-> TRUE, tracked |-> tracked, log |-> "removing"]
            ELSE [stop |-> FALSE, tracked |-> Put(tracked, t.id, now), log |-> "completed"]
        ELSE IF DelayElapsed(tracked[t.id], now) THEN
            [stop |-> TRUE, tracked |-> Del(tracked, t.id), log |-> "removing"]
        ELSE [stop |-> FALSE, tracked |-> tracked, log |-> "none"]
    ELSE [stop |-> FALSE, tracked |-> Del(tracked, t.id),
          log |-> IF Has(tracked, t.id) THEN "no_longer_completed" ELSE "none"]

DelayIter_keepOnRevert(tracked, t, now) ==
    IF t.status = "stopped" THEN
        [stop |-> FALSE, tracked |-> Del(tracked, t.id),
         log |-> IF Has(tracked, t.id) THEN "paused" ELSE "none"]
    ELSE IF IsCompleted(t.status) THEN
        IF ~Has(tracked, t.id) THEN [stop |-> FALSE, tracked |-> Put(tracked, t.id, now), log |-> "completed"]
        ELSE IF DelayElapsed(tracked[t.id], now) THEN
            [stop |-> TRUE, tracked |-> Del(tracked, t.id), log |-> "removing"]
        ELSE [stop |-> FALSE, tracked |-> tracked, log |-> "none"]
    ELSE [stop |-> FALSE, tracked |-> tracked, log |-> "none"]

DelayIter_keepOnPause(tracked, t, now) ==
    IF t.status = "stopped" THEN [stop |-> FALSE, tracked |-> tracked, log |-> "none"]
    ELSE IF IsCompleted(t.status) THEN
        IF ~Has(tracked, t.id) THEN [stop |-> FALSE, tracked |-> Put(tracked, t.id, now), log |-> "completed"]
        ELSE IF DelayElapsed(tracked[t.id], now) THEN
            [stop |-> TRUE, tracked |-> Del(tracked, t.id), log |-> "removing"]
        ELSE [stop |-> FALSE, tracked |-> tracked, log |-> "none"]
    ELSE [stop |-> FALSE, tracked |-> Del(tracked, t.id),
          log |-> IF Has(tracked, t.id) THEN "no_longer_completed" ELSE "none"]

DelayIter_refreshTimestamp(tracked, t, now) ==
    IF t.status = "stopped" THEN
        [stop |-> FALSE, tracked |-> Del(tracked, t.id),
         log |-> IF Has(tracked, t.id) THEN "paused" ELSE "none"]
    ELSE IF IsCompleted(t.status) THEN
        IF ~Has(tracked, t.id) THEN [stop |-> FALSE, tracked |-> Put(tracked, t.id, now), log |-> "completed"]
        ELSE IF DelayElapsed(tracked[t.id], now) THEN
            [stop |-> TRUE, tracked |-> Del(tracked, t.id), log |-> "removing"]
        ELSE [stop |-> FALSE, tracked |-> Put(tracked, t.id, now), log |-> "none"]
    ELSE [stop |-> FALSE, tracked |-> Del(tracked, t.id),
          log |-> IF Has(tracked, t.id) THEN "no_longer_completed" ELSE "none"]

DelayIter_keepAfterStop(tracked, t, now) ==
    IF t.status = "stopped" THEN
        [stop |-> FALSE, tracked |-> Del(tracked, t.id),
         log |-> IF Has(tracked, t.id) THEN "paused" ELSE "none"]
    ELSE IF IsCompleted(t.status) THEN
        IF ~Has(tracked, t.id) THEN [stop |-> FALSE, tracked |-> Put(tracked, t.id, now), log |-> "completed"]
        ELSE IF DelayElapsed(tracked[t.id], now) THEN
            [stop |-> TRUE, tracked |-> tracked, log |-> "removing"]
        ELSE [stop |-> FALSE, tracked |-> tracked, log |-> "none"]
    ELSE [stop |-> FALSE, tracked |-> Del(tracked, t.id),
          log |-> IF Has(tracked, t.id) THEN "no_longer_completed" ELSE "none"]

(* lines 73-96, one iteration of the for loop of remove_torrents_by_delay: *)
(* stop says whether stop_torrent(torrent.id) is called (line 90), tracked *)
(* is the map once the iteration has run to its end, log is the line the   *)
(* iteration writes to the log (lines 77, 85, 89, 95)                      *)
DelayIter(tracked, t, now) ==
    IF t.status = "stopped" THEN
        [stop |-> FALSE, tracked |-> Del(tracked, t.id),
         log |-> IF Has(tracked, t.id) THEN "paused" ELSE "none"]
    ELSE IF IsCompleted(t.status) THEN
        IF ~Has(tracked, t.id) THEN [stop |-> FALSE, tracked |-> Put(tracked, t.id, now), log |-> "completed"]
        ELSE IF DelayElapsed(tracked[t.id], now) THEN
            [stop |-> TRUE, tracked |-> Del(tracked, t.id), log |-> "removing"]
        ELSE [stop |-> FALSE, tracked |-> tracked, log |-> "none"]
    ELSE [stop |-> FALSE, tracked |-> Del(tracked, t.id),
          log |-> IF Has(tracked, t.id) THEN "no_longer_completed" ELSE "none"]

(* truth value of self.ratio in "... if self.ratio else ..."               *)
Truthy(r) == r # None /\ r[1] # 0

(* the literal 1.0 of line 111                                             *)
DefaultRatio == 1

RatioCond_strict(t) ==
    IF Truthy(ratio) THEN t.ratio > ratio[1]
    ELSE (DefaultRatio # 0 /\ IsCompleted(t.status))

(* line 111, as Python parses it:                                          *)
(*   (torrent.ratio >= self.ratio) if self.ratio                           *)
(*                                 else (1.0 and torrent.status in (...))  *)
(* "1.0 and X" is X, 1.0 being true: the 1.0 is never compared with the   *)
(* ratio                                                                   *)
RatioCond(t) ==
    IF Truthy(ratio) THEN t.ratio >= ratio[1]
    ELSE (DefaultRatio # 0 /\ IsCompleted(t.status))

RatioIter_noPauseSkip(t) == RatioCond(t)

(* lines 105-113, one iteration of the for loop of remove_torrents_by_ratio: *)
(* whether stop_torrent(torrent.id) is called                               *)
RatioIter(t) == t.status # "stopped" /\ RatioCond(t)

(* the torrent the observer follows                                        *)
Watched == NumTorrents

(* observer of the statuses the delay pass reads at lines 75 and 82 for    *)
(* torrent Watched: the time of its first completed-class observation      *)
(* since it was last observed in any other status                          *)
Observe(s, t, now) ==
    IF t.id # Watched THEN s
    ELSE IF IsCompleted(t.status) THEN (IF s = None THEN Some(now) ELSE s)
    ELSE None

(* observer of what the passes see of torrent Watched and do to it:        *)
(*   "pending"     its last observation was completed-class, with no stop  *)
(*   "finalized"   stop_torrent was called for it at its last observation  *)
(*   "refinalized" and at the observation before that one as well          *)
(*   "out"         it was last observed in another status, or never        *)
Classify(w, t, stop) ==
    IF t.id # Watched THEN w
    ELSE IF stop THEN (IF w \in {"finalized", "refinalized"} THEN "refinalized"
                       ELSE "finalized")
    ELSE IF IsCompleted(t.status) THEN "pending"
    ELSE "out"

(* ------------------------------------------------------------------ Init *)
(* TransmissionManager(config, delay, sleep_duration, ratio), lines 27-32: *)
(* the arguments are stored as given (the constructor checks nothing, the  *)
(* both-flags case is refused by argparse in main alone, lines 177-181);   *)
(* connect_to_server is about to be called.  The map and the event of      *)
(* lines 34-35 are shown empty and clear from the start                    *)
Init ==
    /\ ratio \in {None} \cup { Some(r) : r \in Ratios }
    /\ delay \in (IF ratio = None THEN Delays ELSE {0, MaxDelay})
    /\ completed_torrents = EmptyDict
    /\ stop_event = FALSE
    /\ pc = "init"
    /\ torrents = <<>>
    /\ listed = {}
    /\ current_time = 0
    /\ stop_calls = {}
    /\ log = "none"
    /\ error = "none"
    /\ streak_start = None
    /\ polls_after_stop = 0
    /\ wait_result = "none"
    /\ w_state = "out"
    /\ stdout = {}

Running == pc \in {"check", "call", "loop", "wait"}

(* --------------------------------------------------------------- actions *)
(* lines 33-35 and 201-202: Client(...) connects, __init__ returns and     *)
(* main calls run()                                                        *)
Connect ==
    /\ pc = "init"
    /\ pc' = "start"
    /\ error' = error
    /\ stdout' = stdout \cup {"Successfully connected to the server."}
    /\ UNCHANGED <<delay, ratio, completed_torrents, stop_event, torrents, listed,
                   current_time, stop_calls, log, streak_start, polls_after_stop,
                   wait_result,
                   w_state>>

ConnectFails_swallowed ==
    /\ pc = "init"
    /\ pc' = "start"
    /\ error' = "connect"
    /\ stdout' = stdout \cup {"Failed to connect to the server"}
    /\ UNCHANGED <<delay, ratio, completed_torrents, stop_event, torrents, listed,
                   current_time, stop_calls, log, streak_start, polls_after_stop,
                   wait_result,
                   w_state>>

(* lines 49-52: Client(...) raises, connect_to_server re-raises, and the   *)
(* exception leaves __init__ and main (line 201): the process ends with a  *)
(* traceback and a non-zero status, run() never called                     *)
ConnectFails ==
    /\ pc = "init"
    /\ pc' = "failed"
    /\ error' = "connect"
    /\ stdout' = stdout \cup {"Failed to connect to the server"}
    /\ UNCHANGED <<delay, ratio, completed_torrents, stop_event, torrents, listed,
                   current_time, stop_calls, log, streak_start, polls_after_stop,
                   wait_result,
                   w_state>>

(* lines 120-121: signal.signal(SIGINT / SIGTERM, signal_handler)          *)
InstallHandlers ==
    /\ pc = "start"
    /\ pc' = "check"
    /\ UNCHANGED <<delay, ratio, completed_torrents, stop_event, torrents, listed,
                   current_time, stop_calls, log, error, streak_start, polls_after_stop,
                   wait_result,
                   w_state,
                   stdout>>

(* line 117: what signal_handler prints                                    *)
StopLine == "Received signal to stop. Exiting..."

SignalHandler_clearsTracking ==
    /\ Running
    /\ stop_event' = TRUE
    /\ completed_torrents' = EmptyDict
    /\ stdout' = stdout \cup {StopLine}
    /\ UNCHANGED <<delay, ratio, pc, torrents, listed,
                   current_time, stop_calls, log, error, streak_start, polls_after_stop,
                   wait_result,
                   w_state>>

(* lines 116-118: signal_handler, run between any two steps of the loop:   *)
(* it prints StopLine and sets the event                                   *)
SignalHandler ==
    /\ Running
    /\ stop_event' = TRUE
    /\ stdout' = stdout \cup {StopLine}
    /\ UNCHANGED <<delay, ratio, completed_torrents, pc, torrents, listed,
                   current_time, stop_calls, log, error, streak_start, polls_after_stop,
                   wait_result,
                   w_state>>

LoopCheck_ignoreFlag ==
    /\ pc = "check"
    /\ pc' = "call"
    /\ wait_result' = "none"
    /\ UNCHANGED <<delay, ratio, completed_torrents, stop_event, torrents, listed,
                   current_time, stop_calls, log, error, streak_start, polls_after_stop,
                   w_state,
                   stdout>>

(* line 123: while not self.stop_event.is_set()                            *)
LoopCheck ==
    /\ pc = "check"
    /\ pc' = IF stop_event THEN "done" ELSE "call"
    /\ wait_result' = IF stop_event THEN wait_result ELSE "none"
    /\ UNCHANGED <<delay, ratio, completed_torrents, stop_event, torrents, listed,
                   current_time, stop_calls, log, error, streak_start, polls_after_stop,
                   w_state,
                   stdout>>

Bump(n) == IF n < 2 THEN n + 1 ELSE n

(* lines 124-127 and 71-72 / 104: the pass is chosen and get_torrents()    *)
(* returns; the delay pass then reads datetime.now()                       *)
GetTorrents ==
    /\ pc = "call"
    /\ torrents' \in Snapshots
    /\ IF ratio = None
       THEN \E now \in Times : now >= current_time /\ current_time' = now
       ELSE current_time' = current_time
    /\ listed' = IdsOf(torrents')
    /\ stop_calls' = {}
    /\ pc' = "loop"
    /\ polls_after_stop' = IF stop_event THEN Bump(polls_after_stop) ELSE polls_after_stop
    /\ log' = "none"
    /\ UNCHANGED <<delay, ratio, completed_torrents, stop_event, error, streak_start,
                   wait_result,
                   w_state,
                   stdout>>

(* lines 71 / 104: get_torrents() raises; run() catches KeyboardInterrupt  *)
(* alone (line 129), so the exception leaves run()                         *)
GetTorrentsFails ==
    /\ pc = "call"
    /\ pc' = "crashed"
    /\ error' = "list"
    /\ polls_after_stop' = IF stop_event THEN Bump(polls_after_stop) ELSE polls_after_stop
    /\ UNCHANGED <<delay, ratio, completed_torrents, stop_event, torrents, listed,
                   current_time, stop_calls, log, streak_start,
                   wait_result,
                   w_state,
                   stdout>>

DelayIteration_sweepsTracked ==
    /\ pc = "loop" /\ ratio = None /\ torrents # <<>>
    /\ LET t == Head(torrents)
           r == DelayIter(completed_torrents, t, current_time)
       IN /\ completed_torrents' = r.tracked
          /\ stop_calls' = (IF r.stop THEN stop_calls \cup {t.id} ELSE stop_calls) \cup
                { i \in DOMAIN completed_torrents :
                    i \notin listed /\ DelayElapsed(completed_torrents[i], current_time) }
          /\ log' = r.log
          /\ streak_start' = Observe(streak_start, t, current_time)
    /\ torrents' = Tail(torrents)
    /\ w_state' = Classify(w_state, Head(torrents),
                           DelayIter(completed_torrents, Head(torrents), current_time).stop)
    /\ UNCHANGED <<delay, ratio, stop_event, pc, listed, current_time, error,
                   polls_after_stop,
                   wait_result,
                   stdout>>

(* lines 73-96: one torrent of the delay pass, stop_torrent returning      *)
DelayIteration ==
    /\ pc = "loop" /\ ratio = None /\ torrents # <<>>
    /\ LET t == Head(torrents)
           r == DelayIter(completed_torrents, t, current_time)
       IN /\ completed_torrents' = r.tracked
          /\ stop_calls' = IF r.stop THEN stop_calls \cup {t.id} ELSE stop_calls
          /\ log' = r.log
          /\ streak_start' = Observe(streak_start, t, current_time)
    /\ torrents' = Tail(torrents)
    /\ w_state' = Classify(w_state, Head(torrents),
                           DelayIter(completed_torrents, Head(torrents), current_time).stop)
    /\ UNCHANGED <<delay, ratio, stop_event, pc, listed, current_time, error,
                   polls_after_stop,
                   wait_result,
                   stdout>>

(* line 90 raises: line 91 is not reached and the exception leaves run()   *)
DelayStopFails ==
    /\ pc = "loop" /\ ratio = None /\ torrents # <<>>
    /\ LET t == Head(torrents)
           r == DelayIter(completed_torrents, t, current_time)
       IN /\ r.stop
          /\ stop_calls' = stop_calls \cup {t.id}
          /\ log' = r.log
          /\ streak_start' = Observe(streak_start, t, current_time)
    /\ pc' = "crashed"
    /\ error' = "stop"
    /\ w_state' = Classify(w_state, Head(torrents), TRUE)
    /\ UNCHANGED <<delay, ratio, completed_torrents, stop_event, torrents, listed,
                   current_time, polls_after_stop,
                   wait_result,
                   stdout>>

RatioIteration_recordsStop ==
    /\ pc = "loop" /\ ratio # None /\ torrents # <<>>
    /\ LET t == Head(torrents)
           go == RatioIter(t) /\ ~Has(completed_torrents, t.id)
       IN /\ stop_calls' = IF go THEN stop_calls \cup {t.id} ELSE stop_calls
          /\ log' = IF go THEN "reached_ratio" ELSE "none"
          /\ completed_torrents' = IF go THEN Put(completed_torrents, t.id, current_time)
                                          ELSE completed_torrents
          /\ w_state' = Classify(w_state, t, go)
    /\ torrents' = Tail(torrents)
    /\ UNCHANGED <<delay, ratio, stop_event, pc, listed,
                   current_time, error, streak_start, polls_after_stop,
                   wait_result,
                   stdout>>

(* lines 105-113: one torrent of the ratio pass, stop_torrent returning    *)
RatioIteration ==
    /\ pc = "loop" /\ ratio # None /\ torrents # <<>>
    /\ LET t == Head(torrents)
       IN /\ stop_calls' = IF RatioIter(t) THEN stop_calls \cup {t.id} ELSE stop_calls
          /\ log' = IF RatioIter(t) THEN "reached_ratio" ELSE "none"
    /\ torrents' = Tail(torrents)
    /\ w_state' = Classify(w_state, Head(torrents), RatioIter(Head(torrents)))
    /\ UNCHANGED <<delay, ratio, completed_torrents, stop_event, pc, listed,
                   current_time, error, streak_start, polls_after_stop,
                   wait_result,
                   stdout>>

(* line 113 raises                                                         *)
RatioStopFails ==
    /\ pc = "loop" /\ ratio # None /\ torrents # <<>>
    /\ LET t == Head(torrents)
       IN /\ RatioIter(t)
          /\ stop_calls' = stop_calls \cup {t.id}
          /\ log' = "reached_ratio"
    /\ pc' = "crashed"
    /\ error' = "stop"
    /\ w_state' = Classify(w_state, Head(torrents), TRUE)
    /\ UNCHANGED <<delay, ratio, completed_torrents, stop_event, torrents, listed,
                   current_time, streak_start, polls_after_stop,
                   wait_result,
                   stdout>>

(* the for loop is exhausted and the pass returns to line 128              *)
PassReturns ==
    /\ pc = "loop" /\ torrents = <<>>
    /\ pc' = "wait"
    /\ stop_calls' = {}
    /\ log' = "none"
    /\ UNCHANGED <<delay, ratio, completed_torrents, stop_event, torrents, listed,
                   current_time, error, streak_start, polls_after_stop,
                   wait_result,
                   w_state,
                   stdout>>

WaitReturns_plainSleep ==
    /\ pc = "wait"
    /\ pc' = "check"
    /\ wait_result' = "timeout"
    /\ UNCHANGED <<delay, ratio, completed_torrents, stop_event, torrents, listed,
                   current_time, stop_calls, log, error, streak_start, polls_after_stop,
                   w_state,
                   stdout>>

(* line 128: self.stop_event.wait(self.sleep_duration) returns: at once    *)
(* with True when the flag is set, with False when the interval is over;   *)
(* run() discards the value                                                *)
WaitReturns ==
    /\ pc = "wait"
    /\ pc' = "check"
    /\ wait_result' = IF stop_event THEN "set" ELSE "timeout"
    /\ UNCHANGED <<delay, ratio, completed_torrents, stop_event, torrents, listed,
                   current_time, stop_calls, log, error, streak_start, polls_after_stop,
                   w_state,
                   stdout>>

Next ==
    \/ Connect
    \/ ConnectFails
    \/ InstallHandlers
    \/ SignalHandler
    \/ LoopCheck
    \/ GetTorrents
    \/ GetTorrentsFails
    \/ DelayIteration
    \/ DelayStopFails
    \/ RatioIteration
    \/ RatioStopFails
    \/ PassReturns
    \/ WaitReturns

Spec == Init /\ [][Next]_vars

(* the steps of the main thread: run() is the only runnable code of the    *)
(* process, so a step that can be taken is taken; signals are not owed     *)
LoopStep ==
    \/ Connect
    \/ ConnectFails
    \/ InstallHandlers
    \/ LoopCheck
    \/ GetTorrents
    \/ GetTorrentsFails
    \/ DelayIteration
    \/ DelayStopFails
    \/ RatioIteration
    \/ RatioStopFails
    \/ PassReturns
    \/ WaitReturns

FairSpec == Spec /\ WF_vars(LoopStep)

(* ---------------------------------------------------------------- claims *)
(* the steps that run one iteration of a pass on the head of the list      *)
DelayStep ==
    /\ pc = "loop" /\ ratio = None /\ torrents # <<>>
    /\ (torrents' = Tail(torrents) \/ pc' = "crashed")

RatioStep ==
    /\ pc = "loop" /\ ratio # None /\ torrents # <<>>
    /\ (torrents' = Tail(torrents) \/ pc' = "crashed")

(* C1: under the delay policy, an iteration on a completed-class torrent   *)
(* calls stop_torrent iff the torrent is tracked and                       *)
(* current_time - first-observed >= delay: at elapsed = delay it does, at  *)
(* elapsed < delay it does not; a stop that returns ends the tracked       *)
(* entry, so no later poll stops the torrent on the same entry             *)
C1_StopAtFirstElapsedPoll ==
    [][ (DelayStep /\ IsCompleted(Head(torrents).status)) =>
        LET i == Head(torrents).id IN
        /\ (i \in stop_calls') <=>
              (Has(completed_torrents, i) /\ current_time - completed_torrents[i] >= delay)
        /\ (i \in stop_calls' /\ pc' # "crashed") => ~Has(completed_torrents', i)
        /\ (i \notin stop_calls' /\ Has(completed_torrents, i)) =>
              (Has(completed_torrents', i) /\ completed_torrents'[i] = completed_torrents[i])
      ]_vars

(* a stop issued for the watched torrent at elapsed = delay > 0            *)
C1_Witness ==
    /\ ratio = None /\ delay > 0 /\ pc = "loop"
    /\ Watched \in stop_calls
    /\ streak_start = Some(current_time - delay)
    /\ ~Has(completed_torrents, Watched)

C3_ReversalRestartsTracking ==
    [][ DelayStep =>
        LET t == Head(torrents) IN
        /\ (t.status # "stopped" /\ ~IsCompleted(t.status)) =>
              (~Has(completed_torrents', t.id) /\ t.id \notin stop_calls')
        /\ \A i \in Ids :
              (~Has(completed_torrents, i) /\ Has(completed_torrents', i)) =>
                  (i = t.id /\ IsCompleted(t.status) /\ completed_torrents'[i] = current_time)
        /\ (t.id = Watched /\ Watched \in stop_calls') =>
              /\ streak_start' # None
              /\ delay = 0 \/ current_time - streak_start'[1] >= delay
      ]_vars

(* the pass has just dropped the entry of a torrent that left the          *)
(* completed class for an active status                                    *)
C3_Witness ==
    /\ ratio = None /\ pc = "loop"
    /\ log = "no_longer_completed"
    /\ streak_start = None
    /\ ~Has(completed_torrents, Watched)
    /\ Watched \in listed /\ Watched \notin IdsOf(torrents)

(* C4: under the delay policy, an iteration on a torrent with status       *)
(* 'stopped' leaves no tracked entry for it and issues no command; the     *)
(* entry of the watched torrent, when it has one, never predates its first *)
(* completed-class observation since it was last seen paused or active, so *)
(* time tracked before a pause is not counted                              *)
C4_PauseDropsEntry ==
    [][ DelayStep =>
        LET t == Head(torrents) IN
        /\ t.status = "stopped" =>
              /\ ~Has(completed_torrents', t.id)
              /\ stop_calls' = stop_calls
              /\ pc' = "loop"
        /\ (t.id = Watched /\ Has(completed_torrents', Watched)) =>
              /\ streak_start' # None
              /\ completed_torrents'[Watched] >= streak_start'[1]
      ]_vars

(* the pass has just dropped the entry of a paused torrent                 *)
C4_Witness ==
    /\ ratio = None /\ pc = "loop"
    /\ log = "paused"
    /\ streak_start = None
    /\ ~Has(completed_torrents, Watched)
    /\ Watched \in listed /\ Watched \notin IdsOf(torrents)

(* C5: under the ratio policy, stop_torrent is called for a torrent only   *)
(* if its status in the list is seeding or seed_pending                    *)
C5_RatioStopsOnlyCompleted ==
    [][ RatioStep =>
        (Head(torrents).id \in stop_calls' => IsCompleted(Head(torrents).status))
      ]_vars

(* C6: under the ratio policy with a threshold R (a ratio that is set and  *)
(* not 0), an iteration on a completed-class torrent calls stop_torrent    *)
(* iff the ratio in the list is >= R, in every reachable state: whatever   *)
(* the earlier polls and the time                                          *)
C6_RatioDecidedByLiveRatio ==
    [][ (RatioStep /\ Truthy(ratio) /\ IsCompleted(Head(torrents).status)) =>
        /\ (Head(torrents).id \in stop_calls') <=> (Head(torrents).ratio >= ratio[1])
        /\ (stop_calls' \ stop_calls) \subseteq {Head(torrents).id}
      ]_vars

(* threshold 2: a pass stopped one torrent and left alone a completed-class *)
(* torrent whose ratio is below 2                                           *)
C6_Witness ==
    /\ ratio = Some(2) /\ pc = "loop"
    /\ log = "reached_ratio"
    /\ stop_calls # {}
    /\ \E k \in 1..Len(torrents) :
          IsCompleted(torrents[k].status) /\ torrents[k].ratio < 2

(* C7: when stop_torrent raises on a tracked torrent that qualifies, the   *)
(* entry stays tracked and the daemon keeps running, to retry on the next  *)
(* poll                                                                    *)
C7_StopFailureKeepsRunning ==
    (ratio = None /\ error = "stop") =>
        /\ pc # "crashed"
        /\ \E i \in stop_calls : Has(completed_torrents, i)

(* C8: a backend call that raises during a poll never leaves the poll loop *)
C8_ErrorsNeverEscapeLoop ==
    pc # "crashed"

(* C9: at the end of a delay pass every tracked id is in the list the pass *)
(* processed                                                               *)
C9_TrackedIdsAreListed ==
    (ratio = None /\ pc = "wait") => DOMAIN completed_torrents \subseteq listed

(* C10 as stated: no get_torrents call begins once the stop flag is set    *)
C10_NoPollAfterStop ==
    polls_after_stop = 0

(* C10 amended: a flag check that finds the flag set starts no pass, the   *)
(* flag once set stays set, a pass in flight runs on, and at most one      *)
(* get_torrents call begins after the flag is set (the one whose flag      *)
(* check came before the handler)                                          *)
C10_AtMostOnePollAfterStop ==
    [][ /\ (pc = "check" /\ stop_event) => pc' = "done"
        /\ stop_event => stop_event'
        /\ (pc = "loop" /\ stop_event) => pc' \in {"loop", "wait", "crashed"}
        /\ (pc = "wait" /\ stop_event) => pc' \in {"wait", "check"}
        /\ polls_after_stop' <= 1
      ]_vars

(* the handler ran between the flag check and get_torrents: that pass ran, *)
(* and the loop ended at the next check                                    *)
C10_Witness ==
    pc = "done" /\ stop_event /\ polls_after_stop = 1

(* steps the loop still owes once the stop flag is set                     *)
Rank ==
    CASE pc = "call" -> NumTorrents + 4
      [] pc = "loop" -> Len(torrents) + 3
      [] pc = "wait" -> 2
      [] pc = "check" -> 1
      [] OTHER -> 0

(* C11: once the stop flag is set, run() returns (exit status 0) unless a  *)
(* backend call raises: until then the loop always has a step to take, and *)
(* each step taken with the flag set brings the end nearer (Rank falls),   *)
(* so under the fairness of FairSpec the end is reached; a wait that finds *)
(* the flag set returns True without the interval running out, and the     *)
(* flag check that follows ends the loop with no further poll. With the    *)
(* flag set the handler changes nothing, so every step that changes the    *)
(* state is a step of the loop                                             *)
C11_SignalTerminatesLoop ==
    /\ [](/\ (stop_event /\ pc # "done" /\ error = "none") => ENABLED LoopStep
          /\ stop_event => StopLine \in stdout
          /\ (pc = "check" /\ wait_result = "set") => stop_event
          /\ pc = "done" => (stop_event /\ error = "none" /\ ~ENABLED LoopStep))
    /\ [][ stop_event =>
              /\ Rank' < Rank
              /\ pc = "wait" => (pc' = "check" /\ wait_result' = "set")
              /\ (pc = "check" /\ wait_result = "set") => pc' = "done"
          ]_vars

(* C11, the liveness it amounts to: under FairSpec a set flag leads to the *)
(* end of run() or to a backend call that raised                           *)
C11_Eventually ==
    stop_event ~> (pc = "done" \/ error # "none")

(* the loop ended after a wait the flag cut short                          *)
C11_Witness ==
    /\ pc = "done" /\ stop_event /\ error = "none"
    /\ wait_result = "set" /\ polls_after_stop = 0 /\ listed # {}

(* C12: a configuration with both a delay and a ratio never gets to the    *)
(* poll loop, however the daemon was constructed                           *)
C12_BothPoliciesRejected ==
    (delay # 0 /\ ratio # None) => pc \in {"init", "start", "failed"}

(* C13: when the connection fails at startup the process ends there with   *)
(* the exception: no handler is installed, the loop is never entered, no   *)
(* list-torrents or stop call is made, and no step follows                 *)
C13_ConnectFailureIsFatal ==
    error = "connect" =>
        /\ pc = "failed"
        /\ listed = {} /\ stop_calls = {} /\ log = "none"
        /\ ~stop_event /\ polls_after_stop = 0
        /\ ~ENABLED Next

(* the connection failed and the process ended                             *)
C13_Witness ==
    pc = "failed" /\ error = "connect"

BetweenPolls == pc \in {"wait", "check", "call", "done"}

C15_NoCommandForUnlistedId ==
    /\ stop_calls \subseteq listed
    /\ (w_state \in {"finalized", "refinalized"} /\ error = "none") =>
           ~Has(completed_torrents, Watched)

(* a delay pass has run to its end on a list without the watched torrent,  *)
(* finalized earlier: no command for it, no entry, no error                *)
C15_Witness ==
    /\ ratio = None /\ pc = "loop" /\ torrents = <<>> /\ error = "none"
    /\ w_state = "finalized" /\ Watched \notin listed
    /\ Watched \notin stop_calls /\ ~Has(completed_torrents, Watched)

(* C16: under either policy an iteration on a torrent whose status is      *)
(* 'stopped' calls no stop_torrent, whatever its tracked age or its ratio  *)
C16_PausedNeverStopped ==
    [][ ((DelayStep \/ RatioStep) /\ Head(torrents).status = "stopped") =>
        /\ stop_calls' = stop_calls
        /\ pc' = "loop"
        /\ error' = "none"
      ]_vars

(* delay 0: a tracked torrent, due for removal on this poll, was found     *)
(* paused: its entry was dropped and no command was issued                 *)
C16_Witness ==
    /\ ratio = None /\ delay = 0 /\ pc = "loop"
    /\ log = "paused" /\ stop_calls = {}
    /\ Watched \in listed /\ Watched \notin IdsOf(torrents)

(* C17: when self.ratio is None or 0 the ratio pass stops a torrent only   *)
(* if its live ratio is >= 1.0                                             *)
C17_DefaultThresholdApplies ==
    [][ (RatioStep /\ ~Truthy(ratio)) =>
        (Head(torrents).id \in stop_calls' => Head(torrents).ratio >= DefaultRatio)
      ]_vars

C19_Threshold == IF Truthy(ratio) THEN ratio[1] ELSE DefaultRatio

C20_TimestampNeverOverwritten ==
    [][ ratio = None =>
        /\ \A i \in Ids :
              (Has(completed_torrents, i) /\ Has(completed_torrents', i))
                  => completed_torrents'[i] = completed_torrents[i]
        /\ DelayStep =>
              \A i \in Ids \ {Head(torrents).id} :
                  /\ Has(completed_torrents', i) <=> Has(completed_torrents, i)
      ]_vars

(* a later poll has visited the tracked torrent, still in the completed    *)
(* class, before its delay has elapsed: the entry holds the earlier time   *)
C20_Witness ==
    /\ ratio = None /\ pc = "loop" /\ error = "none"
    /\ Watched \in listed /\ Watched \notin IdsOf(torrents)
    /\ w_state = "pending" /\ Watched \notin stop_calls
    /\ Has(completed_torrents, Watched)
    /\ completed_torrents[Watched] < current_time

====
